---------------------------- MODULE Spec2Model ----------------------------
(***************************************************************************)
(* Model of ppv_law.py: the regression of log10(ppv) on log10(scaled       *)
(* distance) with its three safety bounds (ppv_regress), the inversion of  *)
(* the bound models into a charge-distance table (cargas_sd), and the      *)
(* script entry point that wires the two.                                  *)
(*                                                                         *)
(* Numbers are floating-point values, as numpy's float64 are: a decimal    *)
(* mantissa of Digits significant digits and an exponent, plus nan and the *)
(* two infinities, with IEEE rules for the special values (x/0 = inf,      *)
(* 0/0 = nan, sqrt of a negative = nan, every comparison with nan false).  *)
(***************************************************************************)
EXTENDS Integers, Sequences, FiniteSets

(***************************************************************************)
(* Floating-point numbers                                                  *)
(***************************************************************************)

\* significant decimal digits kept by the arithmetic
Digits == 4

RECURSIVE Pow10Int(_)
Pow10Int(k) == IF k <= 0 THEN 1 ELSE 10 * Pow10Int(k - 1)

MantLo == Pow10Int(Digits - 1)
MantHi == Pow10Int(Digits)

NaN == [k |-> "nan", m |-> 0, e |-> 0]
PInf == [k |-> "inf", m |-> 1, e |-> 0]
NInf == [k |-> "inf", m |-> -1, e |-> 0]
Zero == [k |-> "fin", m |-> 0, e |-> 0]

Abs(i) == IF i < 0 THEN -i ELSE i
Sgn(i) == IF i < 0 THEN -1 ELSE IF i > 0 THEN 1 ELSE 0

\* a positive integer mantissa brought to Digits digits (round half up on the
\* last dropped digit)
RECURSIVE NormPos(_, _)
NormPos(m, e) ==
  IF m = 0 THEN Zero
  ELSE IF m >= 10 * MantHi THEN NormPos(m \div 10, e + 1)
  ELSE IF m >= MantHi THEN NormPos((m + 5) \div 10, e + 1)
  ELSE IF m < MantLo THEN NormPos(m * 10, e - 1)
  ELSE [k |-> "fin", m |-> m, e |-> e]

FNeg(a) == IF a.k = "nan" THEN NaN ELSE [a EXCEPT !.m = -a.m]

\* the float nearest to m * 10^e
Norm(m, e) == IF m < 0 THEN FNeg(NormPos(-m, e)) ELSE NormPos(m, e)

IsNaN(a) == a.k = "nan"
IsInf(a) == a.k = "inf"
IsFin(a) == a.k = "fin"
IsZero(a) == a.k = "fin" /\ a.m = 0

FMul(a, b) ==
  IF IsNaN(a) \/ IsNaN(b) THEN NaN
  ELSE IF IsInf(a) \/ IsInf(b)
    THEN IF IsZero(a) \/ IsZero(b) THEN NaN
         ELSE IF Sgn(a.m) * Sgn(b.m) > 0 THEN PInf ELSE NInf
  ELSE Norm(a.m * b.m, a.e + b.e)

FDiv(a, b) ==
  IF IsNaN(a) \/ IsNaN(b) THEN NaN
  ELSE IF IsInf(a)
    THEN IF IsInf(b) THEN NaN
         ELSE IF Sgn(a.m) * (IF b.m < 0 THEN -1 ELSE 1) > 0 THEN PInf ELSE NInf
  ELSE IF IsInf(b) THEN Zero
  ELSE IF b.m = 0
    THEN IF a.m = 0 THEN NaN ELSE IF a.m > 0 THEN PInf ELSE NInf
  ELSE LET q == (Abs(a.m) * MantHi * 10) \div Abs(b.m)
       IN  Norm(Sgn(a.m) * Sgn(b.m) * q, a.e - b.e - Digits - 1)

FAdd(a, b) ==
  IF IsNaN(a) \/ IsNaN(b) THEN NaN
  ELSE IF IsInf(a)
    THEN IF IsInf(b) /\ a.m # b.m THEN NaN ELSE a
  ELSE IF IsInf(b) THEN b
  ELSE IF a.m = 0 THEN b
  ELSE IF b.m = 0 THEN a
  ELSE LET hi == IF a.e >= b.e THEN a ELSE b
           lo == IF a.e >= b.e THEN b ELSE a
           d  == hi.e - lo.e
       IN  IF d > Digits + 1 THEN hi
           ELSE Norm(hi.m * Pow10Int(d) + lo.m, lo.e)

FSub(a, b) == FAdd(a, FNeg(b))

\* a < b; false when either is nan
FLt(a, b) ==
  IF IsNaN(a) \/ IsNaN(b) THEN FALSE
  ELSE IF a = b THEN FALSE
  ELSE IF IsInf(a) THEN a.m < 0
  ELSE IF IsInf(b) THEN b.m > 0
  ELSE FSub(a, b).m < 0

FLe(a, b) == ~IsNaN(a) /\ ~IsNaN(b) /\ (a = b \/ FLt(a, b))
FGt(a, b) == FLt(b, a)

\* floor of the square root of a natural number, by bisection
RECURSIVE ISqrtBetween(_, _, _)
ISqrtBetween(v, lo, hi) ==
  IF hi - lo <= 1 THEN lo
  ELSE LET mid == (lo + hi) \div 2
       IN  IF mid * mid <= v THEN ISqrtBetween(v, mid, hi)
           ELSE ISqrtBetween(v, lo, mid)

ISqrt(v) == ISqrtBetween(v, 0, 46341)

FSqrt(a) ==
  IF IsNaN(a) THEN NaN
  ELSE IF IsInf(a) THEN (IF a.m > 0 THEN PInf ELSE NaN)
  ELSE IF a.m < 0 THEN NaN
  ELSE IF a.m = 0 THEN Zero
  ELSE LET odd == (a.e % 2) # 0
           m2  == IF odd THEN a.m * 10 ELSE a.m
           e2  == IF odd THEN a.e - 1 ELSE a.e
       IN  Norm(ISqrt(m2 * MantHi), (e2 - Digits) \div 2)

FSquare(a) == FMul(a, a)

\* the float of the integer i, and of the decimal i / 10^d
FromInt(i) == Norm(i, 0)
Dec(i, d) == Norm(i, -d)
One == FromInt(1)

(***************************************************************************)
(* Sequences of numbers (pandas Series, numpy arrays)                      *)
(***************************************************************************)

RECURSIVE SumTo(_, _)
SumTo(s, i) == IF i = 0 THEN Zero ELSE FAdd(SumTo(s, i - 1), s[i])

\* np.sum / Series.sum
FSum(s) == SumTo(s, Len(s))

\* np.mean
FMean(s) == FDiv(FSum(s), FromInt(Len(s)))

RECURSIVE MinTo(_, _)
MinTo(s, i) ==
  IF i = 1 THEN s[1]
  ELSE LET r == MinTo(s, i - 1) IN IF FLt(s[i], r) THEN s[i] ELSE r

RECURSIVE MaxTo(_, _)
MaxTo(s, i) ==
  IF i = 1 THEN s[1]
  ELSE LET r == MaxTo(s, i - 1) IN IF FLt(r, s[i]) THEN s[i] ELSE r

\* np.min / np.max of a Series; nan for an empty one
FMin(s) == IF Len(s) = 0 THEN NaN ELSE MinTo(s, Len(s))
FMax(s) == IF Len(s) = 0 THEN NaN ELSE MaxTo(s, Len(s))

\* np.linspace(start, stop, num): start + i * step, the last point set to stop
Linspace(start, stop, num) ==
  IF num = 1 THEN <<start>>
  ELSE LET step == FDiv(FSub(stop, start), FromInt(num - 1))
       IN  [i \in 1..num |->
              IF i = num THEN stop
              ELSE FAdd(FMul(FromInt(i - 1), step), start)]

AllFinite(s) == \A i \in 1..Len(s) : IsFin(s[i])

\* np.polyfit(x, y, deg=1) -> <<slope, intercept>>: the least-squares line,
\* and numpy's minimum-norm solution when the columns x and 1 are dependent
\* (every x the same value x0): slope = mean(y) / (2 x0), intercept = mean(y)/2
Polyfit1(x, y) ==
  LET xm  == FMean(x)
      ym  == FMean(y)
      dx  == [i \in 1..Len(x) |-> FSub(x[i], xm)]
      sxx == FSum([i \in 1..Len(x) |-> FSquare(dx[i])])
      sxy == FSum([i \in 1..Len(x) |-> FMul(dx[i], FSub(y[i], ym))])
  IN  IF IsZero(sxx)
        THEN <<FDiv(ym, FMul(FromInt(2), x[1])), FDiv(ym, FromInt(2))>>
        ELSE LET slope == FDiv(sxy, sxx)
             IN  <<slope, FSub(ym, FMul(slope, xm))>>

\* np.polyfit(x, y, deg=2)[0] -> <<a, b, c>> on the equally spaced grid x: the
\* normal equations in u = x - mean(x), where the odd moments of u vanish.
\* A nan among the y makes every coefficient nan.
Polyfit2(x, y) ==
  IF ~AllFinite(y) THEN <<NaN, NaN, NaN>>
  ELSE
  LET m   == Len(x)
      xm  == FMean(x)
      u   == [i \in 1..m |-> FSub(x[i], xm)]
      u2  == [i \in 1..m |-> FSquare(u[i])]
      s2  == FSum(u2)
      s4  == FSum([i \in 1..m |-> FSquare(u2[i])])
      t0  == FSum(y)
      t1  == FSum([i \in 1..m |-> FMul(u[i], y[i])])
      t2  == FSum([i \in 1..m |-> FMul(u2[i], y[i])])
      mm  == FromInt(m)
      qa  == FDiv(FSub(FMul(mm, t2), FMul(s2, t0)),
                  FSub(FMul(mm, s4), FSquare(s2)))
      qb  == FDiv(t1, s2)
      qc  == FDiv(FSub(t0, FMul(s2, qa)), mm)
  IN  << qa,
         FSub(qb, FMul(FromInt(2), FMul(qa, xm))),
         FAdd(FSub(qc, FMul(qb, xm)), FMul(qa, FSquare(xm))) >>

(***************************************************************************)
(* Quantile functions of scipy.  A probability (nc, cobertura) is only     *)
(* compared and handed to these functions; it is kept as an exact decimal, *)
(* in millionths: 0.5 is 500000 and 0.500001 is 500001.                    *)
(***************************************************************************)

\* the standard normal quantile, st.norm.ppf(p)
NormQ(p) ==
  CASE p = 500000 -> Zero
    [] p = 500001 -> Dec(2507, 9)
    [] p = 900000 -> Dec(1282, 3)
    [] p = 950000 -> Dec(1645, 3)
    [] OTHER      -> NaN

\* st.norm.ppf(p, loc=0, scale=scale): nan unless scale > 0
NormPpf(p, scale) ==
  IF FGt(scale, Zero) THEN FMul(NormQ(p), scale) ELSE NaN

\* st.t.ppf(p, df): nan unless df > 0
TPpf(p, df) ==
  IF df <= 0 THEN NaN
  ELSE CASE p = 500000 -> Zero
         [] p = 500001 ->
              (CASE df = 1 -> Dec(3142, 9) [] df = 2 -> Dec(2828, 9)
                 [] df = 3 -> Dec(2721, 9) [] OTHER  -> Dec(2667, 9))
         [] p = 900000 ->
              (CASE df = 1 -> Dec(3078, 3) [] df = 2 -> Dec(1886, 3)
                 [] df = 3 -> Dec(1638, 3) [] OTHER  -> Dec(1533, 3))
         [] OTHER -> NaN

\* sp.nctdtrit(df, delta, p): the p-quantile of the noncentral t distribution
\* with df degrees of freedom and noncentrality delta, by the Jennett-Welch
\* formula; nan unless df > 0
Nctdtrit(df, delta, p) ==
  IF df <= 0 \/ ~IsFin(delta) THEN NaN
  ELSE LET z   == NormQ(p)
           z2  == FSquare(z)
           d2  == FromInt(2 * df)
           num == FAdd(delta,
                       FMul(z, FSqrt(FAdd(One,
                                 FDiv(FSub(FSquare(delta), z2), d2)))))
       IN  FDiv(num, FSub(One, FDiv(z2, d2)))


(***************************************************************************)
(* ppv_regress                                                             *)
(***************************************************************************)

\* The input file as pd.read_csv finds it: missing, or a table with its
\* column names and, when it has both x and y, its rows <<x, y>>.
MissingFile == [kind |-> "missing", cols |-> {}, rows |-> <<>>]
Table(cols, rows) == [kind |-> "table", cols |-> cols, rows |-> rows]

\* the guard left out: nc reaches the quantile functions as given
NcGuardOff(nc) == nc

\* lines 69-71: nc exactly 0.5 is replaced by 0.500001
NcGuard(nc) == IF nc = 500000 THEN 500001 ELSE nc

\* lines 74-83: the outcome of reading the file; both exceptions are caught
\* inside ppv_regress, reported on stdout, and the function returns None
ReadError(file) ==
  IF file.kind = "missing" THEN "FileNotFoundError"
  ELSE IF "x" \notin file.cols \/ "y" \notin file.cols THEN "ValueError"
  ELSE "none"

\* line 96: mse = sqrt(sum(rss_y^2) / (n - 2))
Mse(rss_y, n) ==
  FSqrt(FDiv(FSum([i \in 1..Len(rss_y) |-> FSquare(rss_y[i])]),
             FromInt(n - 2)))

\* the offset without its term in (xs - x_mean)^2 / ss
SeXFlat(xs, n, x_mean, ss, mse, nc) ==
  [i \in 1..Len(xs) |->
     FMul(FMul(FSqrt(FAdd(One, FDiv(One, FromInt(n)))), mse),
          TPpf(nc, n - 2))]

\* lines 106-114: the prediction-interval offset at the coordinates xs,
\* sqrt(1 + 1/n + (xs - x_mean)^2 / ss) * mse * t.ppf(nc, df = n - 2)
SeX(xs, n, x_mean, ss, mse, nc) ==
  [i \in 1..Len(xs) |->
     FMul(FMul(FSqrt(FAdd(FAdd(One, FDiv(One, FromInt(n))),
                          FDiv(FSquare(FSub(xs[i], x_mean)), ss))),
               mse),
          TPpf(nc, n - 2))]

\* lines 117-118: _x_tol = sqrt(1/n + (xs - x_mean)^2 / ss)
XTol(xs, n, x_mean, ss) ==
  [i \in 1..Len(xs) |->
     FSqrt(FAdd(FDiv(One, FromInt(n)),
                FDiv(FSquare(FSub(xs[i], x_mean)), ss)))]

\* lines 119-123: the tolerance-interval offset at the coordinates xs
SeXTol(xs, n, x_mean, ss, mse, nc, cobertura) ==
  LET xt == XTol(xs, n, x_mean, ss)
  IN  [i \in 1..Len(xs) |->
         FMul(FMul(Nctdtrit(n - 2, FDiv(NormQ(cobertura), xt[i]), nc), mse),
              xt[i])]

\* lines 131-133: np.mean(bound > y)
Cover(bound, y) ==
  FDiv(FromInt(Cardinality({i \in 1..Len(y) : FGt(bound[i], y[i])})),
       FromInt(Len(y)))

NoModels == [pred |-> <<>>, aprox |-> <<>>, tol |-> <<>>]

\* what a call that returns no model leaves behind
NoResult(outcome, error, nc) ==
  [outcome |-> outcome, error |-> error, nc |-> nc, n |-> 0,
   mse_computed |-> FALSE, ss_divided |-> FALSE,
   x |-> <<>>, x_grid |-> <<>>, x_mean |-> NaN, ss |-> NaN, mse |-> NaN,
   se_x_aprox |-> <<>>, se_x |-> <<>>, se_x_grid |-> <<>>,
   se_x_aprox_grid |-> <<>>, cover |-> <<>>, models |-> NoModels]

\* ppv_regress(filename, nc, cobertura, ngrid), lines 43-177.  outcome is
\* "returned" (the three models), "none" (an error was printed and None
\* returned) or "raised" (an exception left the function).
PpvRegress(file, nc0, cobertura, ngrid) ==
  LET nc == NcGuard(nc0)
      n  == Len(file.rows)
  IN
  IF ReadError(file) # "none" THEN NoResult("none", ReadError(file), nc)
  \* line 93: np.polyfit refuses an empty vector
  ELSE IF n = 0 THEN NoResult("raised", "TypeError", nc)
  ELSE
  LET x         == [i \in 1..n |-> file.rows[i][1]]
      y         == [i \in 1..n |-> file.rows[i][2]]
      x_grid    == Linspace(FMin(x), FMax(x), ngrid)
      fit       == Polyfit1(x, y)
      slope     == fit[1]
      intercept == fit[2]
      y_predict == [i \in 1..n |-> FAdd(intercept, FMul(slope, x[i]))]
      rss_y     == [i \in 1..n |-> FSub(y[i], y_predict[i])]
      mse       == Mse(rss_y, n)
      x_mean    == FMean(x)
      ss        == FSum([i \in 1..n |-> FSquare(FSub(x[i], x_mean))])
      se_x_aprox    == NormPpf(nc, mse)
      se_x          == SeX(x, n, x_mean, ss, mse, nc)
      se_x_grid     == SeX(x_grid, n, x_mean, ss, mse, nc)
      se_x_tol      == SeXTol(x, n, x_mean, ss, mse, nc, cobertura)
      se_x_tol_grid == SeXTol(x_grid, n, x_mean, ss, mse, nc, cobertura)
      y_pred_nc_aprox == [i \in 1..n |-> FAdd(y_predict[i], se_x_aprox)]
      y_pred_nc       == [i \in 1..n |-> FAdd(y_predict[i], se_x[i])]
      y_tol_nc        == [i \in 1..n |-> FAdd(y_predict[i], se_x_tol[i])]
      y_predict_x_grid ==
        [i \in 1..ngrid |-> FAdd(intercept, FMul(slope, x_grid[i]))]
      y_pred_x_grid_nc ==
        [i \in 1..ngrid |-> FAdd(y_predict_x_grid[i], se_x_grid[i])]
      y_tol_x_grid_nc ==
        [i \in 1..ngrid |-> FAdd(y_predict_x_grid[i], se_x_tol_grid[i])]
  IN  [outcome |-> "returned", error |-> "none", nc |-> nc, n |-> n,
       mse_computed |-> TRUE, ss_divided |-> TRUE,
       x |-> x, x_grid |-> x_grid, x_mean |-> x_mean, ss |-> ss, mse |-> mse,
       \* the scalar se_x_aprox as numpy broadcasts it over x and x_grid
       se_x_aprox |-> [i \in 1..n |-> se_x_aprox],
       se_x |-> se_x, se_x_grid |-> se_x_grid,
       se_x_aprox_grid |-> [i \in 1..ngrid |-> se_x_aprox],
       cover |-> << Cover(y_pred_nc_aprox, y), Cover(y_pred_nc, y),
                    Cover(y_tol_nc, y) >>,
       models |->
         [pred  |-> Polyfit2(x_grid, y_pred_x_grid_nc),
          aprox |-> <<FAdd(intercept, se_x_aprox), slope>>,
          tol   |-> Polyfit2(x_grid, y_tol_x_grid_nc)]]


(***************************************************************************)
(* cargas_sd                                                               *)
(***************************************************************************)

\* np.log10(ppvumbral) for the thresholds of the model (mm/s)
Log10(ppvumbral) ==
  CASE ppvumbral = 1   -> Zero
    [] ppvumbral = 10  -> FromInt(1)
    [] ppvumbral = 40  -> Dec(1602, 3)
    [] ppvumbral = 50  -> Dec(1699, 3)
    [] ppvumbral = 100 -> FromInt(2)
    [] OTHER           -> NaN

\* 10^(d/10), 10^(d/100), 10^(d/1000) for a decimal digit d
Tenth(d) == Dec(<<1000, 1259, 1585, 1995, 2512, 3162, 3981, 5012, 6310, 7943>>[d + 1], 3)
Hundredth(d) == Dec(<<1000, 1023, 1047, 1072, 1096, 1122, 1148, 1175, 1202, 1230>>[d + 1], 3)
Thousandth(d) == Dec(<<1000, 1002, 1005, 1007, 1009, 1012, 1014, 1016, 1019, 1021>>[d + 1], 3)

\* 10**s: the whole part of s moves the exponent, each decimal of its
\* fraction contributes one factor; float64 overflows past 10^308
Pow10(s) ==
  IF IsNaN(s) THEN NaN
  ELSE IF IsInf(s) THEN (IF s.m > 0 THEN PInf ELSE Zero)
  ELSE IF s.m = 0 THEN One
  ELSE IF s.e >= 0 THEN (IF s.m > 0 THEN PInf ELSE Zero)
  ELSE LET t  == IF s.e >= -3 THEN s.m * Pow10Int(s.e + 3)
                 ELSE s.m \div Pow10Int(-3 - s.e)
           ip == t \div 1000
           fr == t % 1000
           r  == FMul(FMul(Tenth(fr \div 100), Hundredth((fr \div 10) % 10)),
                      Thousandth(fr % 10))
       IN  IF t > 308000 THEN PInf
           ELSE IF t < -324000 THEN Zero
           ELSE [r EXCEPT !.e = r.e + ip]

RECURSIVE PowInt(_, _)
PowInt(x, k) == IF k = 0 THEN One ELSE FMul(PowInt(x, k - 1), x)

\* np.power(x, p) for x >= 0 and the exponents p = 1 / beta of the model,
\* which are whole numbers
Whole(p) ==
  IF p.e >= 0 THEN p.m * Pow10Int(p.e) ELSE p.m \div Pow10Int(-p.e)

Power(x, p) == PowInt(x, Whole(p))

\* lines 210 and 225: (-b - sqrt(b*b - 4*a*c)) / (2*a)
QuadRoot(a, b, c) ==
  FDiv(FSub(FNeg(b),
            FSqrt(FSub(FMul(b, b), FMul(FMul(FromInt(4), a), c)))),
       FMul(FromInt(2), a))

\* lines 213, 218, 228: np.power(d_grid / sd, 1 / beta)
Cargas(d_grid, sd, beta) ==
  [i \in 1..Len(d_grid) |-> Power(FDiv(d_grid[i], sd), FDiv(One, beta))]

NoTable ==
  [made |-> FALSE, logppv |-> NaN, logsd_pred |-> NaN, logsd_aprox |-> NaN,
   logsd_tol |-> NaN, D |-> <<>>, Q_prediccion |-> <<>>, Qaprox |-> <<>>,
   Qtolerancia |-> <<>>]

\* cargas_sd(nc_equation_pred, nc_equation_aprox, nc_equation_tol, ppvumbral,
\* beta, d_grid), lines 182-249: the table df_QvsD, with the three roots
CargasSd(nc_equation_pred, nc_equation_aprox, nc_equation_tol, ppvumbral, beta, d_grid) ==
  LET logppv      == Log10(ppvumbral)
      logsd_pred  == QuadRoot(nc_equation_pred[1], nc_equation_pred[2],
                              FSub(nc_equation_pred[3], logppv))
      logsd_aprox == FDiv(FAdd(FNeg(nc_equation_aprox[1]), logppv),
                          nc_equation_aprox[2])
      logsd_tol   == QuadRoot(nc_equation_tol[1], nc_equation_tol[2],
                              FSub(nc_equation_tol[3], logppv))
  IN  [made |-> TRUE, logppv |-> logppv, logsd_pred |-> logsd_pred,
       logsd_aprox |-> logsd_aprox, logsd_tol |-> logsd_tol,
       D |-> d_grid,
       Q_prediccion |-> Cargas(d_grid, Pow10(logsd_pred), beta),
       Qaprox       |-> Cargas(d_grid, Pow10(logsd_aprox), beta),
       Qtolerancia  |-> Cargas(d_grid, Pow10(logsd_tol), beta)]


(***************************************************************************)
(* Inputs of the model                                                     *)
(***************************************************************************)

\* most rows of a sample
MaxRows == 3
\* largest ngrid
MaxGrid == 4
\* most points of a caller's distance grid
MaxDGrid == 3

\* rows <<x, y>> = <<log10(s_d), log10(ppv)>> a sample is made of
RowVals ==
  { <<FromInt(1), FromInt(2)>>, <<FromInt(1), FromInt(1)>>,
    <<FromInt(2), Zero>>, <<FromInt(3), Zero>> }

Samples == UNION {[1..k -> RowVals] : k \in 0..MaxRows}

Files ==
  {MissingFile} \cup {Table(cols, <<>>) : cols \in {{}, {"x"}, {"y"}}}
    \cup {Table({"x", "y"}, rows) : rows \in Samples}

NcValues == {500000, 500001, 900000}
Coberturas == {950000}
NGrids == 3..MaxGrid

\* models, thresholds, exponents and grids of a direct call of cargas_sd
Quads ==
  {<<FromInt(a), FromInt(b), FromInt(c)>> :
     a \in {-1, 1}, b \in {-3, 0}, c \in {2, 3, 4}}
Lines == {<<FromInt(3), FromInt(-1)>>, <<FromInt(4), FromInt(-2)>>}
Umbrales == {10, 100}
Betas == {Dec(5, 1), Dec(3333, 4)}
DGrids == {Linspace(FromInt(50), FromInt(250), k) : k \in 2..MaxDGrid}

\* the defaults of cargas_sd and the arguments __main__ passes (lines 186-188,
\* 258-259)
DefaultDGrid == Linspace(FromInt(50), FromInt(250), 20)
MainUmbral == 50
MainBeta == Dec(5, 1)

(***************************************************************************)
(* The program                                                             *)
(***************************************************************************)

VARIABLES
  pc,         \* where the caller is: main, unpack, call_cargas, done, crashed
  file,       \* the input file
  nc,         \* the arguments of ppv_regress
  cobertura,
  ngrid,
  ret,        \* what ppv_regress returned
  models,     \* the three models handed to cargas_sd
  ppvumbral,  \* the other arguments of cargas_sd
  beta,
  d_grid,
  tabla,      \* what cargas_sd returned
  error       \* the exception that ended the caller, or "none"

vars == <<pc, file, nc, cobertura, ngrid, ret, models, ppvumbral, beta,
          d_grid, tabla, error>>

Pending == NoResult("pending", "none", 0)

\* __main__, lines 252-259, with the file, nc, cobertura and ngrid left open
Init ==
  /\ pc = "main"
  /\ file \in Files
  /\ nc \in NcValues
  /\ cobertura \in Coberturas
  /\ ngrid \in NGrids
  /\ ret = Pending
  /\ models = NoModels
  /\ ppvumbral = MainUmbral
  /\ beta = MainBeta
  /\ d_grid = DefaultDGrid
  /\ tabla = NoTable
  /\ error = "none"

\* line 254: the call of ppv_regress
CallPpvRegress ==
  /\ pc = "main"
  /\ ret' = PpvRegress(file, nc, cobertura, ngrid)
  /\ pc' = IF ret'.outcome = "raised" THEN "crashed" ELSE "unpack"
  /\ error' = IF ret'.outcome = "raised" THEN ret'.error ELSE error
  /\ UNCHANGED <<file, nc, cobertura, ngrid, models, ppvumbral, beta, d_grid,
                 tabla>>

\* line 254: the result is unpacked into three names; None cannot be unpacked
Unpack ==
  /\ pc = "unpack"
  /\ IF ret.outcome = "none"
       THEN /\ pc' = "crashed"
            /\ error' = "TypeError"
            /\ UNCHANGED models
       ELSE /\ pc' = "call_cargas"
            /\ models' = ret.models
            /\ UNCHANGED error
  /\ UNCHANGED <<file, nc, cobertura, ngrid, ret, ppvumbral, beta, d_grid,
                 tabla>>

\* line 258: the call of cargas_sd
CallCargasSd ==
  /\ pc = "call_cargas"
  /\ tabla' = CargasSd(models.pred, models.aprox, models.tol, ppvumbral,
                       beta, d_grid)
  /\ pc' = "done"
  /\ UNCHANGED <<file, nc, cobertura, ngrid, ret, models, ppvumbral, beta,
                 d_grid, error>>

Next == CallPpvRegress \/ Unpack \/ CallCargasSd

Spec == Init /\ [][Next]_vars

\* a caller that holds three models and calls cargas_sd with them
SolverInit ==
  /\ pc = "call_cargas"
  /\ file = MissingFile
  /\ nc = 900000
  /\ cobertura = 950000
  /\ ngrid = 3
  /\ ret = Pending
  /\ models \in [pred : Quads, aprox : Lines, tol : Quads]
  /\ ppvumbral \in Umbrales
  /\ beta \in Betas
  /\ d_grid \in DGrids
  /\ tabla = NoTable
  /\ error = "none"

SolverNext == CallCargasSd

SolverSpec == SolverInit /\ [][SolverNext]_vars
(***************************************************************************)
(* Properties                                                              *)
(***************************************************************************)

FAbs(a) == IF IsNaN(a) THEN NaN ELSE [a EXCEPT !.m = Abs(a.m)]

HasColumns == file.kind = "table" /\ {"x", "y"} \subseteq file.cols
Regressed == ret.outcome # "pending"
NRows == Len(file.rows)
AllXIdentical == \A i, j \in 1..NRows : file.rows[i][1] = file.rows[j][1]

\* b^2 - 4a(c - logppv) of a quadratic model <<a, b, c>>
Disc(q, logppv) ==
  FSub(FSquare(q[2]), FMul(FMul(FromInt(4), q[1]), FSub(q[3], logppv)))

\* the two roots of a s^2 + b s + (c - logppv) = 0
RootWith(q, logppv, sign) ==
  FDiv(FAdd(FNeg(q[2]), FMul(FromInt(sign), FSqrt(Disc(q, logppv)))),
       FMul(FromInt(2), q[1]))

SmallerRoot(q, logppv) ==
  LET r1 == RootWith(q, logppv, -1)
      r2 == RootWith(q, logppv, 1)
  IN  IF FLt(r2, r1) THEN r2 ELSE r1

\* a s^2 + b s + c
Quadratic(q, s) ==
  FAdd(FAdd(FMul(q[1], FSquare(s)), FMul(q[2], s)), q[3])

RoundTripTolerance == Dec(1, 2)

Increasing(col) ==
  \A i, j \in 1..Len(col) : i < j => FLt(col[i], col[j])

Feasible(q, logppv) == FLe(Zero, Disc(q, logppv))

\* C1: whenever the discriminant is >= 0, the s used for the prediction and
\* for the tolerance method is the smaller root of a s^2 + b s + (c - logppv),
\* for either sign of a.
C1_SmallerRootUsed ==
  tabla.made =>
    /\ Feasible(models.pred, tabla.logppv)
         => tabla.logsd_pred = SmallerRoot(models.pred, tabla.logppv)
    /\ Feasible(models.tol, tabla.logppv)
         => tabla.logsd_tol = SmallerRoot(models.tol, tabla.logppv)

\* what the code does select: the smaller root when a > 0, the larger one
\* when a < 0
RootSelectedBySignOfA ==
  tabla.made =>
    \A q \in {<<models.pred, tabla.logsd_pred>>,
              <<models.tol, tabla.logsd_tol>>} :
      (Feasible(q[1], tabla.logppv) /\ ~IsZero(q[1][1]))
        => LET r1 == RootWith(q[1], tabla.logppv, -1)
               r2 == RootWith(q[1], tabla.logppv, 1)
           IN  /\ q[2] = r1
               /\ FLt(Zero, q[1][1]) => FLe(r1, r2)
               /\ FLt(q[1][1], Zero) => FLe(r2, r1)

\* C2: a negative discriminant of the prediction or tolerance quadratic ends
\* cargas_sd with a NoFeasibleSolution error and no charge table.
C2_NegativeDiscriminantReported ==
  (pc = "done" /\ (\/ FLt(Disc(models.pred, Log10(ppvumbral)), Zero)
                   \/ FLt(Disc(models.tol, Log10(ppvumbral)), Zero)))
    => (~tabla.made /\ error = "NoFeasibleSolution")

\* C3: a sample of fewer than 3 rows is rejected by ppv_regress with an error
\* before the residual standard error is computed, and no model is returned.
C3_SmallSampleRejected ==
  (Regressed /\ HasColumns /\ NRows < 3)
    => (ret.outcome = "raised" /\ ~ret.mse_computed /\ ret.models = NoModels)

\* C4: a table without the column x or the column y makes ppv_regress raise
\* a ValueError to its caller.
C4_MissingColumnRaised ==
  (Regressed /\ file.kind = "table" /\ ~HasColumns)
    => (ret.outcome = "raised" /\ ret.error = "ValueError")

\* the sample conditions under which the regression is to fail
RegressionMustFail ==
  \/ file.kind = "missing"
  \/ ~HasColumns
  \/ NRows < 3
  \/ AllXIdentical

\* C5: after a regression that fails (missing file, missing column, n < 3 or
\* ss = 0) cargas_sd never produces a charge-distance table.
C5_NoTableAfterFailedRegression ==
  RegressionMustFail => ~tabla.made

\* the failures ppv_regress does detect stop the entry point before cargas_sd
DetectedFailureStopsPipeline ==
  (file.kind = "missing" \/ ~HasColumns)
    => (~tabla.made /\ (pc = "crashed" => error = "TypeError"))

\* C6: with every x the same (ss = 0) ppv_regress signals an error and never
\* divides by ss (stated for a sample of at least 3 rows).
C6_ZeroSsSignalled ==
  (Regressed /\ HasColumns /\ NRows >= 3 /\ AllXIdentical)
    => (ret.outcome = "raised" /\ ~ret.ss_divided)

\* C7: each charge column of the table is strictly increasing in D.
C7_ChargesIncreasing ==
  tabla.made =>
    /\ Increasing(tabla.Q_prediccion)
    /\ Increasing(tabla.Qaprox)
    /\ Increasing(tabla.Qtolerancia)

\* where the roots are real the columns do increase
FeasibleChargesIncreasing ==
  tabla.made =>
    /\ Feasible(models.pred, tabla.logppv) => Increasing(tabla.Q_prediccion)
    /\ Increasing(tabla.Qaprox)
    /\ Feasible(models.tol, tabla.logppv) => Increasing(tabla.Qtolerancia)

RoundTrip(q, s, logppv) ==
  FLe(FAbs(FSub(Quadratic(q, s), logppv)), RoundTripTolerance)

\* C8: the root s computed for the prediction and for the tolerance model
\* satisfies a s^2 + b s + c = log10(threshold) within tolerance.
C8_RootReproducesThreshold ==
  tabla.made =>
    /\ RoundTrip(models.pred, tabla.logsd_pred, tabla.logppv)
    /\ RoundTrip(models.tol, tabla.logsd_tol, tabla.logppv)

\* where the roots are real the round trip holds
FeasibleRootReproducesThreshold ==
  tabla.made =>
    /\ Feasible(models.pred, tabla.logppv)
         => RoundTrip(models.pred, tabla.logsd_pred, tabla.logppv)
    /\ Feasible(models.tol, tabla.logppv)
         => RoundTrip(models.tol, tabla.logsd_tol, tabla.logppv)

\* C9: a call with nc exactly 0.5 raises no division error, hands every
\* quantile computation a confidence level other than 0.5, and returns what
\* the call with nc = 0.500001 returns for the same sample, coverage and grid.
C9_HalfBehavesAsNudged ==
  (Regressed /\ nc = 500000) =>
    /\ ret.error # "ZeroDivisionError"
    /\ ret.nc # 500000
    /\ ret = PpvRegress(file, 500001, cobertura, ngrid)

C9_Witness ==
  /\ nc = 500000
  /\ ret.outcome = "returned"
  /\ AllFinite(ret.models.pred)
  /\ AllFinite(ret.models.tol)
  /\ \E i \in 1..ret.n : FLt(Zero, ret.se_x[i])

\* the coordinates of a result (sample points, then grid points) with the
\* prediction offset added at each
Coordinates(r) == r.x \o r.x_grid
PredOffsets(r) == r.se_x \o r.se_x_grid
AproxOffsets(r) == r.se_x_aprox \o r.se_x_aprox_grid

Gap(r, i) == FAbs(FSub(Coordinates(r)[i], r.x_mean))

StrictlyWidening(r) ==
  \A i, j \in 1..Len(Coordinates(r)) :
    FLt(Gap(r, i), Gap(r, j)) => FLt(PredOffsets(r)[i], PredOffsets(r)[j])

AproxConstant(r) ==
  \A i, j \in 1..Len(Coordinates(r)) : AproxOffsets(r)[i] = AproxOffsets(r)[j]

ValidSample(r) == r.outcome = "returned" /\ r.n >= 3 /\ FLt(Zero, r.ss)

=============================================================================
